---- MODULE Spec2Model ----
(***************************************************************************)
(* Model of the ingestion client (src/utils/ingest.py) and of the outbox   *)
(* replay job (src/replay_outbox.py) of the influai scraper.               *)
(*                                                                         *)
(* A text is a sequence of one-character strings.  A URL is a record of    *)
(* the components urlsplit() finds in its text; an optional dictionary     *)
(* entry is a sequence of length 0 (key missing) or 1 (key present).       *)
(***************************************************************************)
EXTENDS Integers, Sequences, FiniteSets, TLC

-----------------------------------------------------------------------------
(* Tunables of the program (environment variables with defaults).          *)

\* OUTBOX_REPLAY_CHUNK: documents per replay chunk (default 200).
CHUNK_SIZE == 1
\* OUTBOX_MAX_RETRIES: deliveries per replay chunk, as most runs set it
MAX_RETRIES == 2
\* the default of OUTBOX_MAX_RETRIES, which the runs about the backoff use
DEFAULT_MAX_RETRIES == 3
\* OUTBOX_BACKOFF_SEC: base of the linear backoff of replay (default 5).
BACKOFF_SEC == 5
\* the number of attempts of range(2) in _post_batches
POST_ATTEMPTS == 2
\* time.sleep(2) between the two attempts of _post_batches
POST_SLEEP == 2
\* MAX_TOTAL_DOCS: the cap of hourly_runner on the documents of a run
\* (default 500).
MAX_TOTAL_DOCS == 2
\* INGEST_BATCH_SIZE: the documents of one call of ingest_items by
\* hourly_runner (default 50).
INGEST_BATCH_SIZE == 1
\* RUNNER_BASE_SLEEP_SEC, RUNNER_JITTER_SEC and RUNNER_MAX_BACKOFF_SEC of
\* forever_runner, at their defaults
BASE_SLEEP == 3600
JITTER == 90
MAX_BACKOFF == 900
\* a RUNNER_BASE_SLEEP_SEC within the jitter of the floor of max(60, sleep_s)
SHORT_BASE_SLEEP == 100
\* MONITOR_ATTEMPTS: the pings of one run of monitor (default 3).
ATTEMPTS == 2
\* MONITOR_MINUTES_BETWEEN_ALERTS (default 30).
COOLDOWN_MIN == 2

(* Bounds of the model.                                                    *)
MaxItems == 2        \* longest batch handed to ingest_items by the pipeline
MaxOutbox == 2       \* longest outbox file the replay model starts from
MaxRuns == 2         \* replay runs (one at a time)
MaxCollected == 3    \* most documents the runner has collected before a dedupe
MaxWww == 2          \* most "www." prefixes of a host
MaxTrail == 2        \* most slashes at the end of a path
MaxQuery == 2        \* most parameters of a query
MaxQueries == 2      \* most queries of a run of hourly_runner
MaxSourceDocs == 2   \* most documents one call of a source returns
MaxFails == 7        \* most failures forever_runner counts before the model stops
MaxMonRuns == 3      \* runs of monitor.main

-----------------------------------------------------------------------------
(* Texts.                                                                   *)

Absent == << >>
Some(x) == << x >>
Has(o) == Len(o) > 0
\* dict.get(key) or default
GetOr(o, default) == IF Has(o) THEN o[1] ELSE default

RECURSIVE LStrip(_)
LStrip(t) == IF Len(t) > 0 /\ Head(t) = " " THEN LStrip(Tail(t)) ELSE t

RECURSIVE RStrip(_)
RStrip(t) ==
    IF Len(t) > 0 /\ t[Len(t)] = " " THEN RStrip(SubSeq(t, 1, Len(t) - 1)) ELSE t

\* str.strip()
Strip(t) == RStrip(LStrip(t))

-----------------------------------------------------------------------------
(* URLs.  The text                                                          *)
(*   ws scheme :// (www.)^www host [:port] path [?query] [#frag] ws         *)
(* is the record [ws, www, host, upper, port, segs, trail, query, frag];    *)
(* upper says that the host is written with capitals, the path is           *)
(* "/" seg "/" seg ... followed by trail slashes, and the query is a        *)
(* sequence of [k, up, v]: the lower-cased name, whether the name is        *)
(* written with capitals, and the value.  The empty text is EmptyUrl.       *)

EmptyUrl ==
    [ws |-> FALSE, www |-> 0, host |-> "", upper |-> FALSE, port |-> 0,
     segs |-> << >>, trail |-> 0, query |-> << >>, frag |-> FALSE]

\* the text is empty after strip(): `if url` is false
IsEmptyUrl(u) == [u EXCEPT !.ws = FALSE] = EmptyUrl

\* (u or "").strip() on a URL text
StripUrl(u) == [u EXCEPT !.ws = FALSE]

TRACKING_PARAMS ==
    {"utm_source", "utm_medium", "utm_campaign", "utm_term", "utm_content",
     "gclid", "fbclid", "mc_cid", "mc_eid", "ref", "ref_src", "igshid"}

\* The order of str on the names and values the model uses.
StrOrder == << "", "1", "2", "a", "b", "gclid", "utm_id", "utm_source" >>

StrRank(s) == CHOOSE i \in 1..Len(StrOrder) : StrOrder[i] = s

\* kv1 sorts strictly before kv2 under key (k.lower(), v)
QueryLess(a, b) ==
    \/ StrRank(a.k) < StrRank(b.k)
    \/ a.k = b.k /\ StrRank(a.v) < StrRank(b.v)

\* insert x after the elements that do not sort after it (a stable sort)
RECURSIVE InsertSorted(_, _)
InsertSorted(x, s) ==
    IF s = << >> THEN << x >>
    ELSE IF QueryLess(x, Head(s)) THEN << x >> \o s
    ELSE << Head(s) >> \o InsertSorted(x, Tail(s))

\* list.sort(key = ...): stable
RECURSIVE SortQuery(_)
SortQuery(q) ==
    IF q = << >> THEN << >>
    ELSE InsertSorted(q[Len(q)], SortQuery(SubSeq(q, 1, Len(q) - 1)))

FilterTracking(q) == SelectSeq(q, LAMBDA kv : kv.k \notin TRACKING_PARAMS)

\* path = parts.path or "/"; strip the trailing slashes of any other path
CanonPath(u) ==
    IF u.segs = << >> /\ u.trail = 0 THEN [segs |-> << >>, trail |-> 1]
    ELSE IF u.segs = << >> /\ u.trail = 1 THEN [segs |-> << >>, trail |-> 1]
    ELSE [segs |-> u.segs, trail |-> 0]

canonicalize_url(u) ==
    LET p == CanonPath(u)
    IN  [ws |-> FALSE,
         www |-> IF u.www > 0 THEN u.www - 1 ELSE 0,
         host |-> u.host,
         upper |-> FALSE,
         port |-> 0,
         segs |-> p.segs,
         trail |-> p.trail,
         query |-> SortQuery(FilterTracking(u.query)),
         frag |-> FALSE]

\* hashlib.sha256 of the stripped text, None for an empty one.  The digest
\* of a text is modelled by the text itself (distinct texts, distinct
\* digests).
content_hash(t) == IF Strip(t) = << >> THEN Absent ELSE Some(Strip(t))

Range(s) == {s[j] : j \in 1..Len(s)}
InSeq(d, s) == d \in Range(s)

-----------------------------------------------------------------------------
(* Documents: dictionaries with optional entries.                           *)

Doc(url, content) ==
    [url |-> url, content |-> content, title |-> Absent, topic |-> Absent,
     source |-> Absent, url_canon |-> Absent, content_hash |-> Absent]

UrlA == [EmptyUrl EXCEPT !.host = "a.com", !.segs = << "x" >>]

\* the same page as UrlA, written " https://WWW.A.com/x?utm_source=1 "
UrlAVariant ==
    [UrlA EXCEPT !.ws = TRUE, !.www = 1, !.upper = TRUE,
                 !.query = << [k |-> "utm_source", up |-> FALSE, v |-> "1"] >>]

DocA == Doc(Some(UrlA), Some(<< "x" >>))
\* a document without a URL, identified by its content only
DocNoUrl == Doc(Some(EmptyUrl), Some(<< " ", "y" >>))
DocAVariant == Doc(Some(UrlAVariant), Some(<< "x" >>))
\* a document with neither url nor content
DocBare == Doc(Absent, Absent)

\* a document without a URL whose content is that of DocA
DocNoUrlSame == Doc(Some(EmptyUrl), Some(<< "x" >>))

\* another document of the URL of DocA
DocA2 == Doc(Some(UrlA), Some(<< "y" >>))
\* a third one, its url written with surrounding blanks
DocAPadded == Doc(Some([UrlA EXCEPT !.ws = TRUE]), Some(<< "z" >>))

\* documents of two more pages
UrlB == [EmptyUrl EXCEPT !.host = "b.com", !.segs = << "y" >>]
UrlC == [EmptyUrl EXCEPT !.host = "c.com"]
DocB == Doc(Some(UrlB), Some(<< "y" >>))
DocC == Doc(Some(UrlC), Some(<< "z" >>))

DocPool == {DocA, DocNoUrl, DocAVariant, DocBare}

\* every sequence over S of length at most n
SeqsUpTo(S, n) == UNION {[1..m -> S] : m \in 0..n}

\* the in-place augmentation of one document in direct-store mode
Augment(r) ==
    LET url == StripUrl(GetOr(r.url, EmptyUrl))
        url_canon == IF ~IsEmptyUrl(url) THEN canonicalize_url(url) ELSE EmptyUrl
        content == GetOr(r.content, << >>)
        h == content_hash(content)
    IN  [url |-> Some(url),
         content |-> Some(content),
         title |-> Some(GetOr(r.title, << >>)),
         topic |-> Some(GetOr(r.topic, << >>)),
         source |-> Some(GetOr(r.source, << >>)),
         url_canon |-> Some(url_canon),
         content_hash |-> IF Has(h) THEN h ELSE r.content_hash]

\* a slip that tries the content hash before the canonical URL
UpsertKeyHashFirst(r) ==
    IF Has(content_hash(r.content[1])) THEN "content_hash"
    ELSE IF ~IsEmptyUrl(r.url_canon[1]) THEN "url_canon"
    ELSE IF ~IsEmptyUrl(r.url[1]) THEN "url"
    ELSE "skip"

\* which key the direct-store branch upserts an augmented document under
UpsertKey(r) ==
    IF ~IsEmptyUrl(r.url_canon[1]) THEN "url_canon"
    ELSE IF Has(content_hash(r.content[1])) THEN "content_hash"
    ELSE IF ~IsEmptyUrl(r.url[1]) THEN "url"
    ELSE "skip"

DocFields ==
    {"url", "content", "title", "topic", "source", "url_canon", "content_hash"}

\* $set r on a stored document: the entries of r replace the stored ones
SetFields(stored, r) ==
    [f \in DocFields \cup {"created_at"} |->
        IF f = "created_at" THEN stored[f]
        ELSE IF Has(r[f]) THEN r[f] ELSE stored[f]]

\* the document an upsert inserts: the $set entries and the creation marker
NewStored(r) ==
    [f \in DocFields \cup {"created_at"} |->
        IF f = "created_at" THEN Some(TRUE) ELSE r[f]]

Matches(col, key, r) == {j \in 1..Len(col) : col[j][key] = r[key]}

\* col.update_one({key: r[key]}, {"$set": r, "$setOnInsert": {...}}, upsert=True)
update_one(col, key, r) ==
    LET m == Matches(col, key, r)
    IN  IF m = {} THEN Append(col, NewStored(r))
        ELSE LET j == CHOOSE x \in m : \A y \in m : x <= y
             IN  [col EXCEPT ![j] = SetFields(col[j], r)]

\* json.dumps(it) + "\n", and json.loads of a line
Line(d) == [kind |-> "doc", doc |-> d]
Lines(items) == [j \in 1..Len(items) |-> Line(items[j])]
\* a line json.loads raises on, such as a record cut short, and a line that is
\* empty after strip()
BadLine == [kind |-> "bad"]
BlankLine == [kind |-> "blank"]

-----------------------------------------------------------------------------
(* State.                                                                   *)

VARIABLES
    cfg,      \* the environment: MODE, whether MONGO_URI is set, INGEST_BATCH_SIZE,
              \* and what a run explores: the sink's answers, the replay runs
    ing,      \* per process, the activation of ingest_items
    fs,       \* the outbox directory, the OUTBOX file and OUTBOX + ".tmp"
    store,    \* the collection of the direct store
    sunk,     \* the documents the sink has accepted, as they were sent
    log,      \* per process, the I/O of its current call or run, in order
    rep,      \* the activation of replay_outbox.main
    run,      \* the activation of hourly_runner.main
    probe,    \* a caller of canonicalize_url: its argument and what it got back
    sup,      \* the loop of forever_runner
    mon       \* the state file of monitor and the runs of monitor.main

vars == << cfg, ing, fs, store, sunk, log, rep, run, probe, sup, mon >>

\* the pipeline (hourly_runner) and the replay job are separate processes
Procs == {"pipeline", "replay"}

NoFile == [exists |-> FALSE, lines |-> << >>]
File(lines) == [exists |-> TRUE, lines |-> lines]
NoFs == [dir |-> FALSE, live |-> NoFile, tmp |-> NoFile]
FsWith(lines) == [dir |-> TRUE, live |-> File(lines), tmp |-> NoFile]

NoResult == [ok |-> TRUE, upserts |-> 0, queued |-> 0, via |-> "none"]

Idle ==
    [pc |-> "idle", items |-> << >>, input |-> << >>, i |-> 1, attempt |-> 0,
     k |-> 1, upserts |-> 0, fd |-> "none", buf |-> << >>, via |-> "none",
     mark |-> 0, pre |-> NoFs, result |-> NoResult,
     round |-> 1, once |-> << >>, gen |-> 0]

Event(ev, p, docs, resp, n) ==
    [ev |-> ev, p |-> p, docs |-> docs, resp |-> resp, n |-> n]

\* what the sink may answer to POST /ingest: a 2xx JSON object with ok true,
\* a 2xx JSON object with ok false, a non-2xx status or a network error, and
\* a 2xx body that is no JSON object
Responses == {"ok_true", "ok_false", "http_err", "bad_json"}

\* cfg.sink names the environment a run explores: under "any" the sink gives
\* every answer; under "net" it accepts or is unreachable; under "plain" it
\* accepts or is unreachable while the health endpoint and the alert webhook
\* always answer
SinkAnswers == IF cfg.sink = "any" THEN Responses ELSE {"ok_true", "http_err"}
HealthAnswers == IF cfg.sink = "plain" THEN {"ok"} ELSE {"ok", "fail"}
HookAnswers == IF cfg.sink = "plain" THEN {"sent"} ELSE {"sent", "failed"}

\* cfg.disk names what the file system does in a run: under "ok" every file
\* operation succeeds; under "faulty" each one succeeds or raises OSError
FileOutcomes == IF cfg.disk = "faulty" THEN {"done", "oserror"} ELSE {"done"}

\* r.raise_for_status(); resp = r.json(); int(resp.get("upserts", 0)) raise nothing
PostSucceeds(resp) == resp \in {"ok_true", "ok_false"}

\* the upsert count of the answer to a body of n documents
RespUpserts(resp, n) == IF resp = "ok_true" THEN n ELSE 0

\* items[i:i+INGEST_BATCH_SIZE], with i counted from 1
SubBatch(items, i) ==
    SubSeq(items, i, IF i + cfg.batch - 1 < Len(items) THEN i + cfg.batch - 1 ELSE Len(items))

\* range(0, total, INGEST_BATCH_SIZE): the start of the sub-batch after i
NextStart(i) == i + cfg.batch

\* a slip that gives a sub-batch one attempt more
RetryOnceMore(attempt) == attempt + 1 < POST_ATTEMPTS + 1

\* for attempt in range(2): whether another attempt follows the failure of
\* attempt number `attempt`, counted from 0
RetryAgain(attempt) == attempt + 1 < POST_ATTEMPTS

\* the json= argument of requests.post in _post_batches
PostBody(items, i) == items

\* a slip that queues only the sub-batches not yet attempted
RemainingAfterFailed(items, i) == SubSeq(items, i + cfg.batch, Len(items))

\* remaining = items[i:], with i counted from 1
Remaining(items, i) == SubSeq(items, i, Len(items))

\* a slip that queues only the documents not yet upserted
HandlerBatchRest(items, k) == SubSeq(items, k + 1, Len(items))

\* the batch the except clause of ingest_items queues when the k-th document
\* raised: _write_outbox(items)
HandlerBatch(items, k) == items

-----------------------------------------------------------------------------
(* ingest_items, one action per I/O operation.                              *)

\* the locals of a call of ingest_items as it starts; gen is the number of
\* the replay run whose claim precedes the call, 0 if no run is past its claim
Activation(p, items) ==
    [Idle EXCEPT !.items = items, !.input = items, !.mark = Len(log[p]), !.pre = fs,
                 !.gen = IF rep.pc \in {"read", "call", "wait", "requeue", "remove"}
                         THEN rep.runs ELSE 0]

\* a slip that leaves out the `if not items` return
EnterNoShortCircuit(p, items) ==
    LET a == Activation(p, items)
    IN  IF cfg.mode = "mongo" THEN
            IF ~cfg.uri
            THEN [a EXCEPT !.pc = "open", !.buf = HandlerBatch(items, 1), !.via = "handler"]
            ELSE IF items = << >>
            THEN [a EXCEPT !.pc = "done",
                           !.result = [ok |-> TRUE, upserts |-> 0, queued |-> 0, via |-> "mongo"]]
            ELSE [a EXCEPT !.pc = "mongo"]
        ELSE [a EXCEPT !.pc = "warm"]

\* a slip that leaves out the check of MONGO_URI
EnterNoUriCheck(p, items) ==
    LET a == Activation(p, items)
    IN  IF items = << >> THEN
            [a EXCEPT !.pc = "done",
                      !.result = [ok |-> TRUE, upserts |-> 0, queued |-> 0, via |-> "empty"]]
        ELSE IF cfg.mode = "mongo" THEN [a EXCEPT !.pc = "mongo"]
        ELSE [a EXCEPT !.pc = "warm"]

\* the entry of ingest_items up to its first I/O operation
Enter(p, items) ==
    LET a == Activation(p, items)
    IN  IF items = << >> THEN
            [a EXCEPT !.pc = "done",
                      !.result = [ok |-> TRUE, upserts |-> 0, queued |-> 0, via |-> "empty"]]
        ELSE IF cfg.mode = "mongo" THEN
            IF ~cfg.uri
            THEN [a EXCEPT !.pc = "open", !.buf = HandlerBatch(items, 1), !.via = "handler"]
            ELSE [a EXCEPT !.pc = "mongo"]
        ELSE [a EXCEPT !.pc = "warm"]

\* the pipeline calls ingest_items(batch), batch drawn from Batches
CallFrom(Batches) ==
    /\ ing["pipeline"].pc = "idle"
    /\ \E items \in Batches :
          ing' = [ing EXCEPT !["pipeline"] = Enter("pipeline", items)]
    /\ UNCHANGED << mon, sup, probe, run, cfg, sunk, fs, store, log, rep >>

PipelineCall == CallFrom(SeqsUpTo(DocPool, MaxItems))

\* the pipeline hands the list of a call that returned ok to ingest_items once
\* more; once remembers the collection as the first call left it
CallAgain ==
    /\ ing["pipeline"].pc = "done"
    /\ ing["pipeline"].result.ok
    /\ ing["pipeline"].round = 1
    /\ ing' = [ing EXCEPT !["pipeline"] =
                  [Enter("pipeline", ing["pipeline"].items) EXCEPT
                      !.input = ing["pipeline"].input, !.round = 2, !.once = store]]
    /\ UNCHANGED << mon, sup, probe, run, cfg, sunk, fs, store, log, rep >>

\* a slip that lets a failed warm-up end the delivery
WarmUpAborting(p) ==
    /\ ing[p].pc = "warm"
    /\ \E resp \in HealthAnswers :
          /\ log' = [log EXCEPT ![p] = Append(@, Event("warmup", p, << >>, resp, 0))]
          /\ ing' = [ing EXCEPT ![p] =
                IF resp = "ok"
                THEN [ing[p] EXCEPT !.pc = "post", !.i = 1, !.attempt = 0]
                ELSE [ing[p] EXCEPT !.pc = "open", !.via = "handler",
                                    !.buf = HandlerBatch(ing[p].items, 1)]]
    /\ UNCHANGED << mon, sup, probe, run, cfg, sunk, fs, store, rep >>

\* _warm_up_backend: GET /health, any failure swallowed
WarmUp(p) ==
    /\ ing[p].pc = "warm"
    /\ \E resp \in HealthAnswers :
          log' = [log EXCEPT ![p] = Append(@, Event("warmup", p, << >>, resp, 0))]
    /\ ing' = [ing EXCEPT ![p].pc = "post", ![p].i = 1, ![p].attempt = 0]
    /\ UNCHANGED << mon, sup, probe, run, cfg, sunk, fs, store, rep >>

\* one requests.post of _post_batches and what follows it up to the next I/O
Post(p) ==
    /\ ing[p].pc = "post"
    /\ \E resp \in SinkAnswers :
        LET a == ing[p]
            body == PostBody(a.items, a.i)
            post == Event("post", p, body, resp, a.i)
            next == NextStart(a.i)
            ups == a.upserts + RespUpserts(resp, Len(body))
        IN  IF PostSucceeds(resp) THEN
                /\ sunk' = IF resp = "ok_true" THEN sunk \cup Range(body) ELSE sunk
                /\ log' = [log EXCEPT ![p] = Append(@, post)]
                /\ ing' = [ing EXCEPT ![p] =
                      IF next > Len(a.items)
                      THEN [a EXCEPT !.pc = "done", !.upserts = ups,
                                     !.result = [ok |-> TRUE, upserts |-> ups,
                                                 queued |-> 0, via |-> "batches"]]
                      ELSE [a EXCEPT !.i = next, !.attempt = 0, !.upserts = ups]]
            ELSE IF RetryAgain(a.attempt) THEN
                /\ UNCHANGED sunk
                /\ log' = [log EXCEPT ![p] =
                              @ \o << post, Event("sleep", p, << >>, "", POST_SLEEP) >>]
                /\ ing' = [ing EXCEPT ![p].attempt = a.attempt + 1]
            ELSE
                /\ UNCHANGED sunk
                /\ log' = [log EXCEPT ![p] = Append(@, post)]
                /\ ing' = [ing EXCEPT ![p].pc = "open", ![p].via = "batches",
                                      ![p].buf = Remaining(a.items, a.i)]
    /\ UNCHANGED << mon, sup, probe, run, cfg, fs, store, rep >>

\* one iteration of the direct-store loop: augment r in place, then upsert
MongoStep(p) ==
    /\ ing[p].pc = "mongo"
    /\ LET a == ing[p]
           r == Augment(a.items[a.k])
           items2 == [a.items EXCEPT ![a.k] = r]
           key == UpsertKey(r)
           last == a.k = Len(a.items)
           after(ups) ==
               IF last
               THEN [a EXCEPT !.items = items2, !.upserts = ups, !.pc = "done",
                              !.result = [ok |-> TRUE, upserts |-> ups,
                                          queued |-> 0, via |-> "mongo"]]
               ELSE [a EXCEPT !.items = items2, !.upserts = ups, !.k = a.k + 1]
       IN  IF key = "skip" THEN
               /\ ing' = [ing EXCEPT ![p] = after(a.upserts)]
               /\ UNCHANGED << store, sunk, log >>
           ELSE
               \/ /\ store' = update_one(store, key, r)
                  /\ sunk' = sunk \cup {a.items[a.k], r}
                  /\ log' = [log EXCEPT ![p] = Append(@, Event("upsert", p, << r >>, key, a.k))]
                  /\ ing' = [ing EXCEPT ![p] = after(a.upserts + 1)]
               \/ /\ log' = [log EXCEPT ![p] = Append(@, Event("upsert", p, << r >>, "raise", a.k))]
                  /\ ing' = [ing EXCEPT ![p] =
                        [a EXCEPT !.items = items2, !.pc = "open",
                                  !.buf = HandlerBatch(items2, a.k), !.via = "handler"]]
                  /\ UNCHANGED << store, sunk >>
    /\ UNCHANGED << mon, sup, probe, run, cfg, fs, rep >>

\* _write_outbox: _ensure_outbox_dir() and open(OUTBOX, "a").  An OSError
\* raised under _post_batches is caught by the except clause of ingest_items,
\* which calls _write_outbox(items) in its turn; an OSError raised there
\* leaves ingest_items
OutboxOpen(p) ==
    /\ ing[p].pc = "open"
    /\ \E out \in FileOutcomes :
          IF out = "done" THEN
              /\ fs' = [fs EXCEPT !.dir = TRUE, !.live.exists = TRUE]
              /\ ing' = [ing EXCEPT ![p].pc = "flush", ![p].fd = "live"]
          ELSE
              /\ UNCHANGED fs
              /\ ing' = [ing EXCEPT ![p] =
                    IF ing[p].via = "batches"
                    THEN [ing[p] EXCEPT !.via = "handler",
                                        !.buf = HandlerBatch(ing[p].items, 1)]
                    ELSE [ing[p] EXCEPT !.pc = "raised"]]
    /\ UNCHANGED << mon, sup, probe, run, cfg, sunk, store, log, rep >>

\* the file a descriptor is bound to receives the lines; a file that has been
\* removed or replaced since the open is no longer reachable by any path
WriteTo(fd, lines) ==
    IF fd = "live" THEN [fs EXCEPT !.live.lines = @ \o lines]
    ELSE IF fd = "tmp" THEN [fs EXCEPT !.tmp.lines = @ \o lines]
    ELSE fs

\* _write_outbox: the buffered lines reach the file when the with block closes it
OutboxFlush(p) ==
    /\ ing[p].pc = "flush"
    /\ fs' = WriteTo(ing[p].fd, Lines(ing[p].buf))
    /\ log' = [log EXCEPT ![p] = Append(@, Event("append", p, ing[p].buf, ing[p].fd, 0))]
    /\ ing' = [ing EXCEPT ![p].pc = "alert", ![p].fd = "none"]
    /\ UNCHANGED << mon, sup, probe, run, cfg, sunk, store, rep >>

\* alert(...): the webhook POST, its failure swallowed; then the return
Alert(p) ==
    /\ ing[p].pc = "alert"
    /\ \E sent \in HookAnswers :
          log' = [log EXCEPT ![p] = Append(@, Event("alert", p, << >>, sent, Len(ing[p].buf)))]
    /\ ing' = [ing EXCEPT ![p].pc = "done",
                          ![p].result = [ok |-> FALSE, upserts |-> 0,
                                         queued |-> Len(ing[p].buf), via |-> ing[p].via]]
    /\ UNCHANGED << mon, sup, probe, run, cfg, sunk, fs, store, rep >>

-----------------------------------------------------------------------------
(* replay_outbox.main, one action per I/O operation.                        *)

Off ==
    [pc |-> "off", pending |-> << >>, claimed |-> << >>, i |-> 1, attempt |-> 1,
     failed |-> << >>, processed |-> 0, status |-> 0, runs |-> 0,
     orphans |-> << >>, pre |-> NoFs]

\* a slip that gives up reading at the first line it cannot parse
RECURSIVE iter_jsonl_until_bad(_)
iter_jsonl_until_bad(lines) ==
    IF lines = << >> THEN << >>
    ELSE IF Head(lines).kind = "doc"
         THEN << Head(lines).doc >> \o iter_jsonl_until_bad(Tail(lines))
         ELSE IF Head(lines).kind = "blank" THEN iter_jsonl_until_bad(Tail(lines))
         ELSE << >>

\* _iter_jsonl: the records of the well-formed lines, in order
RECURSIVE iter_jsonl(_)
iter_jsonl(lines) ==
    IF lines = << >> THEN << >>
    ELSE IF Head(lines).kind = "doc"
         THEN << Head(lines).doc >> \o iter_jsonl(Tail(lines))
         ELSE iter_jsonl(Tail(lines))

\* the key of by_url: (r.get("url") or "").strip()
UrlKey(r) == StripUrl(GetOr(r.url, EmptyUrl))

\* a slip that keeps the first record of a key
dedupe_first_wins(items) ==
    LET keyed == SelectSeq(items, LAMBDA r : ~IsEmptyUrl(UrlKey(r)))
        first(j) == \A h \in 1..(j - 1) : UrlKey(keyed[h]) # UrlKey(keyed[j])
        firsts == SelectSeq([j \in 1..Len(keyed) |-> j], first)
    IN  [n \in 1..Len(firsts) |-> keyed[firsts[n]]]

\* dedupe_by_url of hourly_runner and _dedupe_by_url of replay_outbox, the
\* same code: a dict keeps the position of the first insertion of a key and
\* the value of the last; records with an empty key are not inserted
dedupe_by_url(items) ==
    LET keyed == SelectSeq(items, LAMBDA r : ~IsEmptyUrl(UrlKey(r)))
        first(j) == \A h \in 1..(j - 1) : UrlKey(keyed[h]) # UrlKey(keyed[j])
        lastOf(j) ==
            CHOOSE h \in j..Len(keyed) :
                /\ UrlKey(keyed[h]) = UrlKey(keyed[j])
                /\ \A g \in (h + 1)..Len(keyed) : UrlKey(keyed[g]) # UrlKey(keyed[j])
        firsts == SelectSeq([j \in 1..Len(keyed) |-> j], first)
    IN  [n \in 1..Len(firsts) |-> keyed[lastOf(firsts[n])]]

\* a slip that waits the same time after every failure
BackoffFixed(attempt) == BACKOFF_SEC

\* sleep_for = BACKOFF_SEC * attempt
Backoff(attempt) == BACKOFF_SEC * attempt

\* pending[i:i+CHUNK_SIZE], with i counted from 1
Chunk(pending, i) ==
    SubSeq(pending, i, IF i + CHUNK_SIZE - 1 < Len(pending) THEN i + CHUNK_SIZE - 1
                       ELSE Len(pending))

\* a descriptor after os.replace(OUTBOX, tmp): the old OUTBOX is now tmp, the
\* old tmp is gone
AfterReplace(fd) == IF fd = "live" THEN "tmp" ELSE IF fd = "tmp" THEN "gone" ELSE fd

\* a descriptor after os.remove(tmp)
AfterRemove(fd) == IF fd = "tmp" THEN "gone" ELSE fd

\* a slip that leaves out the check for the outbox file
ReplayStartNoCheck ==
    /\ rep.pc \in {"idle", "done", "raised"}
    /\ rep.runs < cfg.runs
    /\ rep' = [rep EXCEPT !.pc = "replace", !.runs = @ + 1,
                          !.pending = << >>, !.claimed = << >>, !.failed = << >>,
                          !.processed = 0, !.status = 0, !.i = 1, !.attempt = 1,
                          !.pre = fs]
    /\ log' = [log EXCEPT !["replay"] = << >>]
    /\ UNCHANGED << mon, sup, probe, run, cfg, sunk, ing, fs, store >>

\* main starts: os.path.exists(OUTBOX); pre remembers the files as the run
\* found them
ReplayStart ==
    /\ rep.pc \in {"idle", "done", "raised"}
    /\ rep.runs < cfg.runs
    /\ rep' = IF fs.live.exists
              THEN [rep EXCEPT !.pc = "replace", !.runs = @ + 1,
                               !.pending = << >>, !.claimed = << >>, !.failed = << >>,
                               !.processed = 0, !.status = 0, !.i = 1, !.attempt = 1,
                               !.pre = fs]
              ELSE [rep EXCEPT !.pc = "done", !.runs = @ + 1,
                               !.pending = << >>, !.claimed = << >>, !.failed = << >>,
                               !.processed = 0, !.status = 0, !.i = 1, !.attempt = 1,
                               !.pre = fs]
    /\ log' = [log EXCEPT !["replay"] = << >>]
    /\ UNCHANGED << mon, sup, probe, run, cfg, sunk, ing, fs, store >>

\* os.replace(OUTBOX, tmp), outside any try block
ReplayClaim ==
    /\ rep.pc = "replace"
    /\ \E out \in FileOutcomes :
          IF out = "done" THEN
              /\ fs' = [fs EXCEPT !.tmp = fs.live, !.live = NoFile]
              /\ ing' = [p \in Procs |-> [ing[p] EXCEPT !.fd = AfterReplace(@)]]
              /\ rep' = [rep EXCEPT !.pc = "read"]
          ELSE
              /\ rep' = [rep EXCEPT !.pc = "raised"]
              /\ UNCHANGED << fs, ing >>
    /\ UNCHANGED << mon, sup, probe, run, cfg, sunk, store, log >>

\* pending = list(_iter_jsonl(tmp)), then _dedupe_by_url; the open() of
\* _iter_jsonl is outside any try block
ReplayRead ==
    /\ rep.pc = "read"
    /\ \E out \in FileOutcomes :
        LET parsed == iter_jsonl(fs.tmp.lines)
            pending == dedupe_by_url(parsed)
        IN  rep' = IF out = "done"
                   THEN [rep EXCEPT !.claimed = parsed,
                                    !.pending = IF parsed = << >> THEN << >> ELSE pending,
                                    !.pc = IF parsed = << >> \/ pending = << >>
                                           THEN "remove" ELSE "call"]
                   ELSE [rep EXCEPT !.pc = "raised"]
    /\ UNCHANGED << mon, sup, probe, run, cfg, sunk, ing, fs, store, log >>

\* res = ingest_items(chunk)
ReplayCall ==
    /\ rep.pc = "call"
    /\ ing' = [ing EXCEPT !["replay"] = Enter("replay", Chunk(rep.pending, rep.i))]
    /\ rep' = [rep EXCEPT !.pc = "wait"]
    /\ UNCHANGED << mon, sup, probe, run, cfg, sunk, fs, store, log >>

\* ingest_items has returned: the rest of the attempt and of the chunk loop
ReplayReturn ==
    /\ rep.pc = "wait"
    /\ ing["replay"].pc \in {"done", "raised"}
    /\ LET a == ing["replay"]
           \* an exception of ingest_items is caught: ok = False
           ok == a.pc = "done" /\ a.result.ok
           n == Len(a.items)
           \* the chunk holds the very dictionaries of pending
           pending == [j \in 1..Len(rep.pending) |->
                          IF j >= rep.i /\ j < rep.i + n
                          THEN a.items[j - rep.i + 1] ELSE rep.pending[j]]
           giveUp == ~ok /\ rep.attempt >= cfg.retries
           failed == IF giveUp THEN rep.failed \o a.items ELSE rep.failed
           nextChunk == ok \/ giveUp
           more == rep.i + CHUNK_SIZE <= Len(pending)
       IN  /\ rep' = [rep EXCEPT
                  !.pending = pending,
                  !.failed = failed,
                  !.processed = IF ok THEN @ + n ELSE @,
                  !.i = IF nextChunk THEN @ + CHUNK_SIZE ELSE @,
                  !.attempt = IF nextChunk THEN 1 ELSE @ + 1,
                  !.pc = IF ~nextChunk \/ more THEN "call"
                         ELSE IF failed # << >> THEN "requeue" ELSE "remove"]
           /\ log' = IF ok THEN log
                     ELSE [log EXCEPT !["replay"] =
                              Append(@, Event("backoff", "replay", << >>, "",
                                              Backoff(rep.attempt)))]
    /\ ing' = [ing EXCEPT !["replay"] = Idle]
    /\ UNCHANGED << mon, sup, probe, run, cfg, sunk, fs, store >>

\* a slip that goes on to the removal of tmp when the requeue has failed
ReplayRequeueThenRemove ==
    /\ rep.pc = "requeue"
    /\ \E out \in FileOutcomes :
          IF out = "done" THEN
              /\ fs' = [fs EXCEPT !.live = File(fs.live.lines \o Lines(rep.failed))]
              /\ log' = [log EXCEPT !["replay"] =
                            Append(@, Event("requeue", "replay", rep.failed, "live", 0))]
              /\ rep' = [rep EXCEPT !.pc = "remove"]
          ELSE
              /\ rep' = [rep EXCEPT !.pc = "remove"]
              /\ log' = [log EXCEPT !["replay"] =
                            Append(@, Event("requeue", "replay", rep.failed, "oserror", 0))]
              /\ UNCHANGED fs
    /\ UNCHANGED << mon, sup, probe, run, cfg, sunk, ing, store >>

\* a slip that opens the outbox with mode "w"
ReplayRequeueTruncating ==
    /\ rep.pc = "requeue"
    /\ \E out \in FileOutcomes :
          IF out = "done" THEN
              /\ fs' = [fs EXCEPT !.live = File(Lines(rep.failed))]
              /\ log' = [log EXCEPT !["replay"] =
                            Append(@, Event("requeue", "replay", rep.failed, "live", 0))]
              /\ rep' = [rep EXCEPT !.pc = "remove"]
          ELSE
              /\ rep' = [rep EXCEPT !.pc = "done", !.status = 2]
              /\ log' = [log EXCEPT !["replay"] =
                            Append(@, Event("requeue", "replay", rep.failed, "oserror", 0))]
              /\ UNCHANGED fs
    /\ UNCHANGED << mon, sup, probe, run, cfg, sunk, ing, store >>

\* open(OUTBOX, "a") and the write of the failed records; an exception is
\* caught: tmp is kept and main returns 2
ReplayRequeue ==
    /\ rep.pc = "requeue"
    /\ \E out \in FileOutcomes :
          IF out = "done" THEN
              /\ fs' = [fs EXCEPT !.live = File(fs.live.lines \o Lines(rep.failed))]
              /\ log' = [log EXCEPT !["replay"] =
                            Append(@, Event("requeue", "replay", rep.failed, "live", 0))]
              /\ rep' = [rep EXCEPT !.pc = "remove"]
          ELSE
              /\ rep' = [rep EXCEPT !.pc = "done", !.status = 2]
              /\ log' = [log EXCEPT !["replay"] =
                            Append(@, Event("requeue", "replay", rep.failed, "oserror", 0))]
              /\ UNCHANGED fs
    /\ UNCHANGED << mon, sup, probe, run, cfg, sunk, ing, store >>

\* os.remove(tmp), only FileNotFoundError caught, then the return of the exit
\* status
ReplayRemove ==
    /\ rep.pc = "remove"
    /\ \E out \in FileOutcomes :
          IF out = "done" THEN
              /\ fs' = [fs EXCEPT !.tmp = NoFile]
              /\ ing' = [p \in Procs |-> [ing[p] EXCEPT !.fd = AfterRemove(@)]]
              /\ rep' = [rep EXCEPT !.pc = "done",
                                    !.status = IF rep.failed = << >> THEN 0 ELSE 2]
          ELSE
              /\ rep' = [rep EXCEPT !.pc = "raised"]
              /\ UNCHANGED << fs, ing >>
    /\ UNCHANGED << mon, sup, probe, run, cfg, sunk, store, log >>

-----------------------------------------------------------------------------
(* canonicalize_url, called on a url and on what it returned.               *)

NoProbe == [pc |-> "off", u |-> EmptyUrl, once |-> EmptyUrl, twice |-> EmptyUrl]

Param(k, up, v) == [k |-> k, up |-> up, v |-> v]

\* a=1, A=1, b=2, utm_source=1 and utm_id=1
QueryParams ==
    {Param("a", FALSE, "1"), Param("a", TRUE, "1"), Param("b", FALSE, "2"),
     Param("utm_source", FALSE, "1"), Param("utm_id", FALSE, "1")}

\* the urls http://[www.]*a.com[:8080][/x][/]*[?query][#f], with blanks around
\* them or not
UrlPool ==
    {[ws |-> ws, www |-> w, host |-> "a.com", upper |-> up, port |-> port,
      segs |-> segs, trail |-> t, query |-> q, frag |-> f] :
        ws \in BOOLEAN, w \in 0..MaxWww, up \in BOOLEAN, port \in {0, 8080},
        segs \in {<< >>, << "x" >>}, t \in 0..MaxTrail,
        q \in SeqsUpTo(QueryParams, MaxQuery), f \in BOOLEAN}

CanonOnce ==
    /\ probe.pc = "url"
    /\ probe' = [probe EXCEPT !.pc = "once", !.once = canonicalize_url(probe.u)]
    /\ UNCHANGED << mon, sup, run, cfg, ing, fs, store, sunk, log, rep >>

CanonTwice ==
    /\ probe.pc = "once"
    /\ probe' = [probe EXCEPT !.pc = "twice", !.twice = canonicalize_url(probe.once)]
    /\ UNCHANGED << mon, sup, run, cfg, ing, fs, store, sunk, log, rep >>

-----------------------------------------------------------------------------
(* hourly_runner.main.                                                      *)

NoRun ==
    [pc |-> "off", collected |-> << >>, items |-> << >>,
     nq |-> 0, q |-> 0, gates |-> [s \in {"newsapi", "reddit", "youtube"} |-> FALSE],
     all_docs |-> << >>, extended |-> 0, failures |-> 0,
     batches |-> << >>, status |-> 0,
     bi |-> 1, calls |-> << >>, outs |-> << >>, ok |-> TRUE]

\* all_docs = dedupe_by_url(all_docs)
RunnerDedupe ==
    /\ run.pc = "collected"
    /\ run' = [run EXCEPT !.pc = "deduped", !.items = dedupe_by_url(run.collected)]
    /\ UNCHANGED << mon, sup, probe, cfg, ing, fs, store, sunk, log, rep >>

\* tag_docs: it.setdefault("source_type", source_type) on every document
tag_docs(items, source_type) ==
    [j \in 1..Len(items) |->
        [f \in DOMAIN items[j] \cup {"source_type"} |->
            IF f # "source_type" THEN items[j][f]
            ELSE IF "source_type" \in DOMAIN items[j] /\ Has(items[j].source_type)
                 THEN items[j].source_type
                 ELSE Some(source_type)]]

\* a slip that leaves the list as long as it is
uncapped(items) == items

\* capped: items[:MAX_TOTAL_DOCS]
capped(items) ==
    SubSeq(items, 1, IF Len(items) < MAX_TOTAL_DOCS THEN Len(items) ELSE MAX_TOTAL_DOCS)

\* what a source may return: documents of three pages, two of them of one
\* page, one without a url
SourcePool == {DocA, DocAPadded, DocB, DocC, DocNoUrl}
SourceOutputs == SeqsUpTo(SourcePool, MaxSourceDocs)

\* all_docs.extend(docs) of documents tagged with source_type
Extended(docs, source_type) ==
    [run EXCEPT !.all_docs = @ \o tag_docs(docs, source_type),
                !.extended = @ + Len(docs)]

\* [all_docs[i:i+INGEST_BATCH_SIZE] for i in range(0, len(all_docs), INGEST_BATCH_SIZE)]
BatchesOf(docs) ==
    [b \in 1..((Len(docs) + INGEST_BATCH_SIZE - 1) \div INGEST_BATCH_SIZE) |->
        SubSeq(docs, (b - 1) * INGEST_BATCH_SIZE + 1,
               IF b * INGEST_BATCH_SIZE < Len(docs) THEN b * INGEST_BATCH_SIZE
               ELSE Len(docs))]

\* main starts: rotation_gate() and pick_queries(); without queries it alerts
\* and returns 0
MainPlan ==
    /\ run.pc = "plan"
    /\ IF run.nq = 0 THEN
           /\ \E sent \in HookAnswers :
                 log' = [log EXCEPT !["pipeline"] =
                            Append(@, Event("alert", "pipeline", << >>, sent, 0))]
           /\ run' = [run EXCEPT !.pc = "done", !.status = 0]
       ELSE
           /\ run' = [run EXCEPT !.pc = "cse", !.q = 1]
           /\ UNCHANGED log
    /\ UNCHANGED << mon, sup, probe, cfg, ing, fs, store, sunk, rep >>

\* run_for_keyword(q), tag_docs and extend, or the exception of the source,
\* which is printed
MainCse ==
    /\ run.pc = "cse"
    /\ LET then == IF run.gates["youtube"] THEN "youtube" ELSE "loopend"
       IN  \/ \E docs \in SourceOutputs :
                 run' = [Extended(docs, "web") EXCEPT !.pc = then]
           \/ run' = [run EXCEPT !.pc = then, !.failures = @ + 1]
    /\ UNCHANGED << mon, sup, probe, cfg, ing, fs, store, sunk, log, rep >>

\* youtube_docs_for_keyword(q), tag_docs and extend, or the exception
MainYoutube ==
    /\ run.pc = "youtube"
    /\ \/ \E docs \in SourceOutputs :
             run' = [Extended(docs, "youtube") EXCEPT !.pc = "loopend"]
       \/ run' = [run EXCEPT !.pc = "loopend", !.failures = @ + 1]
    /\ UNCHANGED << mon, sup, probe, cfg, ing, fs, store, sunk, log, rep >>

\* the end of an iteration over the queries: dedupe_by_url, capped, the
\* pause, and the break at the cap
MainLoopEnd ==
    /\ run.pc = "loopend"
    /\ LET docs == capped(dedupe_by_url(run.all_docs))
           over == Len(docs) >= MAX_TOTAL_DOCS \/ run.q = run.nq
       IN  run' = [run EXCEPT !.all_docs = docs,
                              !.pc = IF over THEN "newsapi" ELSE "cse",
                              !.q = IF over THEN @ ELSE @ + 1]
    /\ UNCHANGED << mon, sup, probe, cfg, ing, fs, store, sunk, log, rep >>

\* one optional source after the loop: gate and room under the cap, then
\* the source, tag_docs, extend, capped(dedupe_by_url(all_docs)), or the
\* exception of the source
AfterLoop(gate, source_type, then) ==
    IF run.gates[gate] /\ Len(run.all_docs) < MAX_TOTAL_DOCS THEN
        \/ \E docs \in SourceOutputs :
              run' = [Extended(docs, source_type) EXCEPT
                         !.all_docs = capped(dedupe_by_url(@)), !.pc = then]
        \/ run' = [run EXCEPT !.pc = then, !.failures = @ + 1]
    ELSE run' = [run EXCEPT !.pc = then]

\* newsapi_items(queries)
MainNewsapi ==
    /\ run.pc = "newsapi"
    /\ AfterLoop("newsapi", "newsapi", "reddit")
    /\ UNCHANGED << mon, sup, probe, cfg, ing, fs, store, sunk, log, rep >>

\* reddit_api_items(subs, per_sub=REDDIT_PER_SUB)
MainReddit ==
    /\ run.pc = "reddit"
    /\ AfterLoop("reddit", "reddit", "handoff")
    /\ UNCHANGED << mon, sup, probe, cfg, ing, fs, store, sunk, log, rep >>

\* without documents main alerts and returns 3; with documents it cuts them
\* into the batches it calls ingest_items with
MainHandOff ==
    /\ run.pc = "handoff"
    /\ IF run.all_docs = << >> THEN
           /\ \E sent \in HookAnswers :
                 log' = [log EXCEPT !["pipeline"] =
                            Append(@, Event("alert", "pipeline", << >>, sent, 0))]
           /\ run' = [run EXCEPT !.pc = "done", !.status = 3]
       ELSE
           /\ run' = [run EXCEPT !.pc = "ingest", !.batches = BatchesOf(run.all_docs)]
           /\ UNCHANGED log
    /\ UNCHANGED << mon, sup, probe, cfg, ing, fs, store, sunk, rep >>

\* what a call of ingest_items does for main: it returns a dict with ok true,
\* a dict with ok false, or it raises
IngestOutcomes == {"ok", "notok", "raise"}

\* a slip that keeps the verdict of the last batch only
BatchOkLast(ok, out) == out = "ok"

\* ok = ok and b_ok, and ok = False in the except clause
BatchOk(ok, out) == ok /\ out = "ok"

\* one turn of the loop over the batches: ingest_items(batch), its result
\* appended and judged, or its exception printed
MainIngest ==
    /\ run.pc = "ingest"
    /\ run.bi <= Len(run.batches)
    /\ \E out \in IngestOutcomes :
          run' = [run EXCEPT !.calls = Append(@, run.batches[run.bi]),
                             !.outs = Append(@, out),
                             !.ok = BatchOk(@, out),
                             !.bi = @ + 1]
    /\ UNCHANGED << mon, sup, probe, cfg, ing, fs, store, sunk, log, rep >>

\* after the loop: the summary alert, whose exception is passed over, and
\* return 0 if ok else 2
MainReturn ==
    /\ run.pc = "ingest"
    /\ run.bi > Len(run.batches)
    /\ \E sent \in HookAnswers :
          log' = [log EXCEPT !["pipeline"] =
                     Append(@, Event("alert", "pipeline", << >>, sent, Len(run.all_docs)))]
    /\ run' = [run EXCEPT !.pc = "done", !.status = IF run.ok THEN 0 ELSE 2]
    /\ UNCHANGED << mon, sup, probe, cfg, ing, fs, store, sunk, rep >>

-----------------------------------------------------------------------------
(* forever_runner: the loop that runs hourly_runner.py and sleeps.          *)

\* code is the exit code of the latest run_once, -1 when run_once raised;
\* streak counts the non-zero exit codes since the last exit code 0; delay is
\* the sleep that ended the latest iteration, if slept; end tells how the loop ended
(* monitor: a time stamp is the minute it names and the separator between  *)
(* its date and its time of day.                                            *)

\* the state file is absent; now is the clock in minutes; alerts is the list
\* of the alerts posted, each with its time, its status, the status of the
\* run before and the time of the alert before (-1 without one)
NoMon ==
    [pc |-> "off", hook |-> TRUE, now |-> 0, runs |-> 0, prev |-> "", code |-> 0,
     file |-> << >>, alerts |-> << >>]

\* now_utc(): strftime("%Y-%m-%d %H:%M:%SZ")
now_utc(now) == [t |-> now, sep |-> " "]

\* strptime(last_alert, "%Y-%m-%dT%H:%M:%SZ"), and datetime(1970,1,1) when it
\* raises
ParseAlertTs(ts) == IF ts.sep = "T" THEN ts.t ELSE 0

\* load_state() and the two state.get: {} without a file, and the defaults
\* "" and "1970-01-01T00:00:00Z"
LoadState(file) ==
    IF file = << >> THEN [last_status |-> "", last_alert_ts |-> [t |-> 0, sep |-> "T"]]
    ELSE [last_status |-> file[1].last_status,
          last_alert_ts |-> GetOr(file[1].last_alert_ts, [t |-> 0, sep |-> "T"])]

\* the health thresholds of main
StatusOf(successes) ==
    IF successes = ATTEMPTS THEN "healthy"
    ELSE IF successes >= 1 THEN "degraded"
    ELSE "unhealthy"

\* the time between two runs of monitor
MonWait ==
    /\ mon.pc = "wait"
    /\ \E d \in {1, COOLDOWN_MIN} : mon' = [mon EXCEPT !.pc = "run", !.now = @ + d]
    /\ UNCHANGED << sup, probe, run, cfg, ing, fs, store, sunk, log, rep >>

\* main: ping(), the status, load_state, the decision, send_alert, and
\* save_state, whose failure is passed over
MonMain ==
    /\ mon.pc = "run"
    /\ mon.runs < MaxMonRuns
    /\ \E successes \in 0..ATTEMPTS, out \in FileOutcomes :
          LET status == StatusOf(successes)
              code == IF successes = ATTEMPTS THEN 0 ELSE IF successes >= 1 THEN 1 ELSE 2
              state == LoadState(mon.file)
              delta_min == mon.now - ParseAlertTs(state.last_alert_ts)
              should_alert ==
                  \/ status # state.last_status
                  \/ delta_min >= COOLDOWN_MIN /\ code # 0
              alerting == should_alert /\ code # 0
              since == IF mon.alerts = << >> THEN -1 ELSE mon.alerts[Len(mon.alerts)].t
              saved == [last_status |-> status,
                        last_alert_ts |-> IF alerting THEN Some(now_utc(mon.now))
                                          ELSE IF mon.file = << >> THEN Absent
                                          ELSE mon.file[1].last_alert_ts]
          IN  mon' = [mon EXCEPT
                        !.pc = "wait", !.runs = @ + 1, !.prev = status, !.code = code,
                        !.alerts = IF alerting /\ mon.hook
                                   THEN Append(@, [t |-> mon.now, status |-> status,
                                                   prev |-> mon.prev, since |-> since])
                                   ELSE @,
                        !.file = IF out = "done" THEN << saved >> ELSE @]
    /\ UNCHANGED << sup, probe, run, cfg, ing, fs, store, sunk, log, rep >>

NoSup ==
    [pc |-> "off", base |-> BASE_SLEEP, fails |-> 0, code |-> 0, streak |-> 0,
     sleep_s |-> 0, delay |-> 0, slept |-> FALSE, end |-> "no"]

RECURSIVE Pow2(_)
Pow2(n) == IF n = 0 THEN 1 ELSE 2 * Pow2(n - 1)

\* the exit codes of hourly_runner.py: those main returns, and 1 of a
\* process that ended with an exception
ExitCodes == {0, 1, 2, 3}

\* delay = min(MAX_BACKOFF, 30 * (2 ** (fails - 1)))
BackoffDelay(fails) ==
    IF MAX_BACKOFF < 30 * Pow2(fails - 1) THEN MAX_BACKOFF ELSE 30 * Pow2(fails - 1)

\* code = run_once(): the exit code of the child, an exception of open() or
\* subprocess.run, or a KeyboardInterrupt, which is logged and ends the loop
SupRunOnce ==
    /\ sup.pc = "run"
    /\ sup.fails < MaxFails
    /\ \/ \E code \in ExitCodes :
             sup' = [sup EXCEPT !.pc = IF code = 0 THEN "ok" ELSE "failed",
                                !.code = code,
                                !.streak = IF code = 0 THEN 0 ELSE @ + 1]
       \/ /\ "oserror" \in FileOutcomes
          /\ sup' = [sup EXCEPT !.pc = "except", !.code = -1]
       \/ sup' = [sup EXCEPT !.pc = "ended", !.end = "interrupt"]
    /\ UNCHANGED << mon, probe, run, cfg, ing, fs, store, sunk, log, rep >>

\* the branch of exit code 0: fails = 0, the sleep with jitter and floor, the
\* log line, whose write may raise, and the sleep
SupSleepOk ==
    /\ sup.pc = "ok"
    /\ \E jitter \in {-JITTER, 0, JITTER}, out \in FileOutcomes :
          LET sleep_s == IF sup.base + jitter < 60 THEN 60 ELSE sup.base + jitter
          IN  sup' = IF out = "done"
                     THEN [sup EXCEPT !.fails = 0, !.sleep_s = sleep_s, !.delay = sleep_s,
                                      !.slept = TRUE, !.pc = "run"]
                     ELSE [sup EXCEPT !.fails = 0, !.sleep_s = sleep_s, !.pc = "except"]
    /\ UNCHANGED << mon, probe, run, cfg, ing, fs, store, sunk, log, rep >>

\* the branch of a non-zero exit code: fails += 1, the delay, the log line,
\* whose write may raise, and the sleep
SupBackoff ==
    /\ sup.pc = "failed"
    /\ \E out \in FileOutcomes :
          LET fails == sup.fails + 1
          IN  sup' = IF out = "done"
                     THEN [sup EXCEPT !.fails = fails, !.delay = BackoffDelay(fails),
                                      !.slept = TRUE, !.pc = "run"]
                     ELSE [sup EXCEPT !.fails = fails, !.pc = "except"]
    /\ UNCHANGED << mon, probe, run, cfg, ing, fs, store, sunk, log, rep >>

\* except Exception: fails += 1, the log line, and the sleep of MAX_BACKOFF;
\* an exception of the log line leaves the loop
SupExcept ==
    /\ sup.pc = "except"
    /\ \E out \in FileOutcomes :
          sup' = IF out = "done"
                 THEN [sup EXCEPT !.fails = @ + 1, !.delay = MAX_BACKOFF,
                                  !.slept = TRUE, !.pc = "run"]
                 ELSE [sup EXCEPT !.fails = @ + 1, !.pc = "ended", !.end = "error"]
    /\ UNCHANGED << mon, probe, run, cfg, ing, fs, store, sunk, log, rep >>

-----------------------------------------------------------------------------
(* What the sink has taken, and process interruption.                       *)


\* the sink accepted d, as it was read or as the direct-store branch rewrote it
Accepted(d) ==
    d \in sunk \/ Augment(d) \in sunk

\* the replay process is killed between the claim and the removal of tmp;
\* its locals and its open descriptor die with it
ReplayCrash ==
    /\ rep.pc \in {"read", "call", "wait", "requeue", "remove"}
    /\ rep.runs < cfg.runs
    /\ rep' = [Off EXCEPT !.pc = "idle", !.runs = rep.runs,
                          !.orphans = SelectSeq(iter_jsonl(fs.tmp.lines),
                                                LAMBDA d : ~Accepted(d))]
    /\ ing' = [ing EXCEPT !["replay"] = Idle]
    /\ UNCHANGED << mon, sup, probe, run, cfg, sunk, fs, store, log >>

-----------------------------------------------------------------------------
(* Specifications.                                                          *)

Config(mode, uri, batch, sink, nRuns) ==
    [mode |-> mode, uri |-> uri, batch |-> batch, sink |-> sink, runs |-> nRuns,
     disk |-> "ok", retries |-> MAX_RETRIES]

InitCommon ==
    /\ ing = [p \in Procs |-> Idle]
    /\ store = << >>
    /\ sunk = {}
    /\ log = [p \in Procs |-> << >>]
    /\ run = NoRun
    /\ probe = NoProbe
    /\ sup = NoSup
    /\ mon = NoMon

(* The ingestion client alone: one call of ingest_items by the pipeline.    *)
Init ==
    /\ InitCommon
    /\ cfg \in {Config("http", TRUE, 1, "net", 0), Config("http", TRUE, 2, "any", 0)}
               \cup {Config("mongo", u, 1, "net", 0) : u \in BOOLEAN}
    /\ fs \in {NoFs, FsWith(Lines(<< DocA >>))}
    /\ rep = Off

IngestStep(p) ==
    \/ WarmUp(p)
    \/ Post(p)
    \/ MongoStep(p)
    \/ OutboxOpen(p)
    \/ OutboxFlush(p)
    \/ Alert(p)

Next ==
    \/ PipelineCall
    \/ \E p \in Procs : IngestStep(p)

Spec == Init /\ [][Next]_vars

(* One replay run over an outbox file, nothing else running.                *)
ReplayPool == {DocA, DocNoUrl, DocAVariant}

ReplayInit ==
    /\ InitCommon
    /\ cfg \in {Config("http", TRUE, 1, "net", 1), Config("mongo", TRUE, 1, "net", 1)}
    /\ fs \in {NoFs} \cup {FsWith(Lines(s)) : s \in SeqsUpTo(ReplayPool, MaxOutbox)}
    /\ rep = [Off EXCEPT !.pc = "idle"]

ReplayStep ==
    \/ ReplayStart
    \/ ReplayClaim
    \/ ReplayRead
    \/ ReplayCall
    \/ ReplayReturn
    \/ ReplayRequeue
    \/ ReplayRemove

ReplayNext ==
    \/ ReplayStep
    \/ \E p \in Procs : IngestStep(p)

SpecReplay == ReplayInit /\ [][ReplayNext]_vars

(* The same two, with the processes running on: a call of ingest_items and  *)
(* a replay run are sequential programs that execute their next statement.  *)
SpecLive == Init /\ [][Next]_vars /\ WF_vars(Next)

(* One replay run over a file that has malformed and blank lines.           *)
CorruptLines == {Line(DocA), Line(DocA2), Line(DocNoUrl), BadLine, BlankLine}

CorruptInit ==
    /\ InitCommon
    /\ cfg \in {Config(m, TRUE, 1, "plain", 1) : m \in {"http", "mongo"}}
    /\ fs \in {NoFs} \cup {FsWith(s) : s \in SeqsUpTo(CorruptLines, MaxOutbox)}
    /\ rep = [Off EXCEPT !.pc = "idle"]

SpecCorrupt == CorruptInit /\ [][ReplayNext]_vars

(* One replay run with the default number of deliveries per chunk.          *)
RetryInit ==
    /\ InitCommon
    /\ cfg \in {[Config(m, TRUE, 1, "plain", 1) EXCEPT !.retries = DEFAULT_MAX_RETRIES] :
                    m \in {"http", "mongo"}}
    /\ fs \in {NoFs} \cup {FsWith(Lines(s)) : s \in SeqsUpTo({DocA, DocNoUrl, DocA2}, MaxOutbox)}
    /\ rep = [Off EXCEPT !.pc = "idle"]

SpecRetry == RetryInit /\ [][ReplayNext]_vars /\ WF_vars(ReplayNext)

(* One replay run on a file system whose operations may fail.               *)
FaultyInit ==
    /\ InitCommon
    /\ cfg \in {[Config(m, TRUE, 1, "plain", 1) EXCEPT !.disk = "faulty"] :
                    m \in {"http", "mongo"}}
    /\ fs \in {FsWith(Lines(s)) : s \in SeqsUpTo({DocA, DocNoUrl}, MaxOutbox)}
    /\ rep = [Off EXCEPT !.pc = "idle"]

SpecFaulty == FaultyInit /\ [][ReplayNext]_vars

(* The direct store alone: a batch ingested, and ingested once more, into a  *)
(* collection that may hold records already.                                *)
StorePool == {DocA, DocNoUrlSame, DocNoUrl}

StoreInit ==
    /\ cfg = Config("mongo", TRUE, 1, "plain", 0)
    /\ ing = [p \in Procs |-> Idle]
    /\ store \in {<< >>} \cup {<< NewStored(Augment(d)) >> : d \in StorePool}
    /\ sunk = {}
    /\ log = [p \in Procs |-> << >>]
    /\ fs = NoFs
    /\ rep = Off
    /\ run = NoRun
    /\ probe = NoProbe
    /\ sup = NoSup
    /\ mon = NoMon

StoreNext ==
    \/ CallFrom(SeqsUpTo(StorePool, MaxItems))
    \/ CallAgain
    \/ MongoStep("pipeline")
    \/ OutboxOpen("pipeline")
    \/ OutboxFlush("pipeline")
    \/ Alert("pipeline")

SpecStore == StoreInit /\ [][StoreNext]_vars

(* The direct store from an empty collection.                              *)
FreshInit ==
    /\ StoreInit
    /\ store = << >>

SpecFresh == FreshInit /\ [][StoreNext]_vars

(* canonicalize_url alone, applied to a url and to its own result.          *)
CanonInit ==
    /\ cfg = Config("mongo", TRUE, 1, "plain", 0)
    /\ ing = [p \in Procs |-> Idle]
    /\ store = << >>
    /\ sunk = {}
    /\ log = [p \in Procs |-> << >>]
    /\ fs = NoFs
    /\ rep = Off
    /\ run = NoRun
    /\ \E u \in UrlPool : probe = [NoProbe EXCEPT !.pc = "url", !.u = u]
    /\ sup = NoSup
    /\ mon = NoMon

CanonNext == CanonOnce \/ CanonTwice

SpecCanon == CanonInit /\ [][CanonNext]_vars

(* The runner has collected documents and deduplicates them.                *)
RunnerPool == {DocA, DocA2, DocAPadded, DocAVariant, DocNoUrl}

RunnerInit ==
    /\ cfg = Config("http", TRUE, 1, "plain", 0)
    /\ ing = [p \in Procs |-> Idle]
    /\ store = << >>
    /\ sunk = {}
    /\ log = [p \in Procs |-> << >>]
    /\ fs = NoFs
    /\ rep = Off
    /\ \E c \in SeqsUpTo(RunnerPool, MaxCollected) :
          run = [NoRun EXCEPT !.pc = "collected", !.collected = c]
    /\ probe = NoProbe
    /\ sup = NoSup
    /\ mon = NoMon

RunnerNext == RunnerDedupe

SpecRunner == RunnerInit /\ [][RunnerNext]_vars

(* hourly_runner.main from its plan to its return.                          *)
HourlyInit ==
    /\ cfg = Config("http", TRUE, 1, "plain", 0)
    /\ ing = [p \in Procs |-> Idle]
    /\ store = << >>
    /\ sunk = {}
    /\ log = [p \in Procs |-> << >>]
    /\ fs = NoFs
    /\ rep = Off
    /\ \E n \in 0..MaxQueries, g \in [{"newsapi", "reddit", "youtube"} -> BOOLEAN] :
          run = [NoRun EXCEPT !.pc = "plan", !.nq = n, !.gates = g]
    /\ probe = NoProbe
    /\ sup = NoSup
    /\ mon = NoMon

HourlyNext ==
    \/ MainPlan
    \/ MainCse
    \/ MainYoutube
    \/ MainLoopEnd
    \/ MainNewsapi
    \/ MainReddit
    \/ MainHandOff
    \/ MainIngest
    \/ MainReturn

SpecHourly == HourlyInit /\ [][HourlyNext]_vars

(* Runs of monitor.main one after the other, one or COOLDOWN_MIN minutes    *)
(* apart, on a state file that is written every time.                       *)
MonInit ==
    /\ cfg = Config("http", TRUE, 1, "plain", 0)
    /\ ing = [p \in Procs |-> Idle]
    /\ store = << >>
    /\ sunk = {}
    /\ log = [p \in Procs |-> << >>]
    /\ fs = NoFs
    /\ rep = Off
    /\ run = NoRun
    /\ probe = NoProbe
    /\ sup = NoSup
    /\ \E h \in BOOLEAN :
          mon = [NoMon EXCEPT !.pc = "run", !.hook = h, !.now = 2 * COOLDOWN_MIN]

MonNext == MonWait \/ MonMain

SpecMonitor == MonInit /\ [][MonNext]_vars

(* forever_runner on a file system that works or may fail.                  *)
SupInit ==
    /\ cfg \in {[Config("http", TRUE, 1, "plain", 0) EXCEPT !.disk = d] :
                    d \in {"ok", "faulty"}}
    /\ ing = [p \in Procs |-> Idle]
    /\ store = << >>
    /\ sunk = {}
    /\ log = [p \in Procs |-> << >>]
    /\ fs = NoFs
    /\ rep = Off
    /\ run = NoRun
    /\ probe = NoProbe
    /\ \E b \in {BASE_SLEEP, SHORT_BASE_SLEEP} : sup = [NoSup EXCEPT !.pc = "run", !.base = b]
    /\ mon = NoMon

SupNext ==
    \/ SupRunOnce
    \/ SupSleepOk
    \/ SupBackoff
    \/ SupExcept

SpecSupervisor == SupInit /\ [][SupNext]_vars

(* Replay runs, one at a time and interruptible, beside a pipeline that     *)
(* makes one call of ingest_items, in either delivery mode.                 *)
SharedInit ==
    /\ InitCommon
    /\ cfg \in {Config(m, TRUE, 1, "plain", MaxRuns) : m \in {"http", "mongo"}}
    /\ fs \in {FsWith(Lines(s)) : s \in SeqsUpTo({DocA}, 1)}
    /\ rep = [Off EXCEPT !.pc = "idle"]

SharedNext ==
    \/ CallFrom({<< DocAVariant >>})
    \/ ReplayStep
    \/ ReplayCrash
    \/ \E p \in Procs : IngestStep(p)

SpecShared == SharedInit /\ [][SharedNext]_vars

-----------------------------------------------------------------------------
(* Properties.                                                              *)

\* the I/O of the current activation of ingest_items in process p
IoOf(p) == SubSeq(log[p], ing[p].mark + 1, Len(log[p]))
EventsOf(p, ev) == SelectSeq(IoOf(p), LAMBDA e : e.ev = ev)

LiveDocs == iter_jsonl(fs.live.lines)
TmpDocs == iter_jsonl(fs.tmp.lines)

\* d as it was read, or as the direct-store branch rewrites it in place
SameDoc(d, e) == e = d \/ e = Augment(d)

\* d was taken by the sink or is queued in the live outbox
Kept(d) == Accepted(d) \/ \E j \in 1..Len(LiveDocs) : SameDoc(d, LiveDocs[j])

\* the key a record is deduplicated under: its canonical URL, and its content
\* hash when it has no URL
DedupeKey(d) ==
    IF ~IsEmptyUrl(UrlKey(d))
    THEN [u |-> canonicalize_url(UrlKey(d)), h |-> Absent]
    ELSE [u |-> EmptyUrl, h |-> content_hash(GetOr(d.content, << >>))]

\* C1: when replay has finished, every record parsed from the claimed file was
\* accepted by the sink or is in the live outbox, unless a later record of the
\* file with the same dedupe key was.
C1_NoSilentDrop ==
    rep.pc = "done" =>
        \A j \in 1..Len(rep.claimed) :
            \/ Kept(rep.claimed[j])
            \/ \E h \in (j + 1)..Len(rep.claimed) :
                  /\ DedupeKey(rep.claimed[h]) = DedupeKey(rep.claimed[j])
                  /\ Kept(rep.claimed[h])

\* C2: every append of the pipeline lands in the file that is the live outbox
\* at the time of the write: never in the file a replay has claimed, and never
\* in a file that no path names any more.
C2_AppendLandsInLiveOutbox ==
    \A n \in 1..Len(log["pipeline"]) :
        log["pipeline"][n].ev = "append" => log["pipeline"][n].resp = "live"

\* C3: every undelivered record of the working file an interrupted replay left
\* behind is, ever after, delivered or still in the live outbox or in the
\* working file.
C3_InterruptedReplayLosesNothing ==
    \A j \in 1..Len(rep.orphans) :
        \/ Accepted(rep.orphans[j])
        \/ InSeq(rep.orphans[j], LiveDocs)
        \/ InSeq(rep.orphans[j], TmpDocs)

\* C4: with nothing else writing the outbox, when replay has returned the live
\* outbox holds exactly the records of the chunks that failed on every retry,
\* each once, and the exit status is 2 if there are any and 0 if not.
C4_OutboxIsExactlyTheFailedChunks ==
    rep.pc = "done" =>
        /\ LiveDocs = rep.failed
        /\ rep.status = IF rep.failed # << >> THEN 2 ELSE 0

\* C11: ingest_items never leaves by an exception, and neither does
\* replay_outbox.main, whatever fails: the sink, the store, the alert webhook
\* or an operation on the outbox files.
C11_NothingThrown ==
    /\ \A p \in Procs : ing[p].pc # "raised"
    /\ rep.pc # "raised"

\* the POSTs of the current activation that failed
FailedPosts(p) ==
    SelectSeq(EventsOf(p, "post"), LAMBDA e : ~PostSucceeds(e.resp))

\* the start index of the sub-batch that used up its attempts, 0 if none did
Exhausted(p) ==
    LET f == FailedPosts(p)
    IN  IF Len(f) >= POST_ATTEMPTS /\ f[Len(f)].n = f[Len(f) - 1].n
        THEN f[Len(f)].n ELSE 0

\* C5: when a sub-batch has used up its attempts and ingest_items has returned,
\* exactly that sub-batch and the later ones were appended to the outbox, in
\* input order, no later sub-batch was POSTed, one alert fired, and the result
\* is ok=false with queued the number of documents appended.
C5_FailFastButPreserve ==
    \A p \in Procs :
        LET a == ing[p]
            k == Exhausted(p)
            rest == SubSeq(a.input, k, Len(a.input))
        IN  (a.pc = "done" /\ k > 0) =>
               /\ EventsOf(p, "append") = << Event("append", p, rest, "live", 0) >>
               /\ fs.live = File(a.pre.live.lines \o Lines(rest))
               /\ \A n \in 1..Len(IoOf(p)) :
                     IoOf(p)[n].ev = "post" => IoOf(p)[n].n <= k
               /\ Len(EventsOf(p, "alert")) = 1
               /\ ~a.result.ok
               /\ a.result.queued = Len(rest)

\* a call whose second sub-batch used up its attempts after the first was taken
C5_Witness ==
    /\ ing["pipeline"].pc = "done"
    /\ Exhausted("pipeline") = 2
    /\ Len(ing["pipeline"].input) = 2

\* C6: the body of every POST is the sub-batch it is sent for.
C6_PostBodyIsOneSubBatch ==
    \A p \in Procs : \A n \in 1..Len(IoOf(p)) :
        IoOf(p)[n].ev = "post" =>
            IoOf(p)[n].docs = SubBatch(ing[p].input, IoOf(p)[n].n)

\* d carries the derived keys of its url and content
IsAugmented(d) ==
    /\ ~IsEmptyUrl(UrlKey(d)) => d.url_canon = Some(canonicalize_url(UrlKey(d)))
    /\ Has(content_hash(GetOr(d.content, << >>)))
          => d.content_hash = content_hash(GetOr(d.content, << >>))

\* C7: every document POSTed, upserted or appended to the outbox carries
\* url_canon and content_hash.
C7_AugmentedBeforeDelivery ==
    \A p \in Procs : \A n \in 1..Len(log[p]) :
        log[p][n].ev \in {"post", "upsert", "append"} =>
            \A j \in 1..Len(log[p][n].docs) : IsAugmented(log[p][n].docs[j])

\* C8: when ingest_items has returned, the caller's list and its documents are
\* as they were at the call.
C8_InputUnchanged ==
    \A p \in Procs : ing[p].pc = "done" => ing[p].items = ing[p].input

\* C9: an activation of ingest_items on an empty batch has returned ok with
\* upserts 0, has done no I/O, and has left the outbox and its directory as
\* they were.
C9_EmptyBatchIsNoOp ==
    \A p \in Procs :
        (ing[p].pc # "idle" /\ ing[p].input = << >>) =>
            /\ ing[p].pc = "done"
            /\ ing[p].result.ok
            /\ ing[p].result.upserts = 0
            /\ ing[p].result.queued = 0
            /\ IoOf(p) = << >>
            /\ fs = ing[p].pre

\* an empty batch handed to ingest_items in direct-store mode without MONGO_URI
C9_Witness ==
    /\ ing["pipeline"].pc = "done"
    /\ ing["pipeline"].input = << >>
    /\ cfg.mode = "mongo"
    /\ ~cfg.uri

\* C10: when the except clause of ingest_items has handled an exception and
\* ingest_items has returned, every document of the batch was appended to the
\* outbox once, one alert fired, and the result is ok=false with queued the
\* size of the batch.
C10_SafetyNet ==
    \A p \in Procs :
        LET a == ing[p]
            w == EventsOf(p, "append")
        IN  (a.pc = "done" /\ a.result.via = "handler") =>
               /\ Len(w) = 1
               /\ Len(w[1].docs) = Len(a.input)
               /\ \A j \in 1..Len(a.input) : SameDoc(a.input[j], w[1].docs[j])
               /\ fs.live = File(a.pre.live.lines \o Lines(w[1].docs))
               /\ Len(EventsOf(p, "alert")) = 1
               /\ ~a.result.ok
               /\ a.result.queued = Len(a.input)

\* the store raised on the second upsert of a batch of two
C10_Witness ==
    /\ ing["pipeline"].pc = "done"
    /\ ing["pipeline"].result.via = "handler"
    /\ ing["pipeline"].k = 2
    /\ Len(EventsOf("pipeline", "upsert")) = 2

\* the key the priority url_canon, content_hash, url gives document d
KeyOf(d) ==
    LET url == StripUrl(GetOr(d.url, EmptyUrl))
    IN  IF ~IsEmptyUrl(url) /\ ~IsEmptyUrl(canonicalize_url(url)) THEN "url_canon"
        ELSE IF Strip(GetOr(d.content, << >>)) # << >> THEN "content_hash"
        ELSE IF ~IsEmptyUrl(url) THEN "url"
        ELSE "skip"

Keyable(items) == {j \in 1..Len(items) : KeyOf(items[j]) # "skip"}

\* C12: in direct-store mode every upsert is made under the first of url_canon,
\* content_hash and url the document has; a document with none of them is not
\* upserted and leaves no record; and a call that returns ok returns as
\* upserts the number of keyable documents of the batch.
C12_KeyPriority ==
    \A p \in Procs :
        LET a == ing[p]
            ups == EventsOf(p, "upsert")
        IN  /\ \A n \in 1..Len(ups) :
                  /\ KeyOf(a.input[ups[n].n]) # "skip"
                  /\ ups[n].resp \in {KeyOf(a.input[ups[n].n]), "raise"}
            /\ \A j \in 1..Len(store) :
                  ~IsEmptyUrl(store[j].url_canon[1]) \/ Has(store[j].content_hash)
            /\ (a.pc = "done" /\ a.result.via = "mongo") =>
                  /\ a.result.ok
                  /\ a.result.upserts = Cardinality(Keyable(a.input))
                  /\ Len(ups) = Cardinality(Keyable(a.input))

\* a batch of a keyable and an unkeyable document went through the store
C12_Witness ==
    /\ ing["pipeline"].pc = "done"
    /\ ing["pipeline"].result.via = "mongo"
    /\ ing["pipeline"].input = << DocBare, DocA >>
    /\ ing["pipeline"].result.upserts = 1

\* C13: when a batch has been ingested into the direct store and then ingested
\* once more, the collection holds the records, with the field values and the
\* creation markers, that it held after the first ingestion.
C13_UpsertIdempotent ==
    LET a == ing["pipeline"]
    IN  (a.pc = "done" /\ a.round = 2 /\ a.result.via = "mongo") =>
            /\ Len(store) = Len(a.once)
            /\ Range(store) = Range(a.once)

\* the canonical URL key of a record
CanonKey(r) == canonicalize_url(UrlKey(r))

\* C14: once replay has deduplicated the claimed file, no two pending records
\* have urls with the same canonical key, and the pending record of a key is
\* the last record of the file with that key.
C14_ReplayDedupesByCanonicalUrl ==
    rep.pc \in {"call", "wait", "requeue", "remove", "done"} =>
        /\ \A i, j \in 1..Len(rep.pending) :
               i # j => CanonKey(rep.pending[i]) # CanonKey(rep.pending[j])
        /\ \A i \in 1..Len(rep.pending) : \A j \in 1..Len(rep.claimed) :
               (CanonKey(rep.claimed[j]) = CanonKey(rep.pending[i])
                /\ \A h \in (j + 1)..Len(rep.claimed) :
                       CanonKey(rep.claimed[h]) # CanonKey(rep.pending[i]))
               => SameDoc(rep.claimed[j], rep.pending[i])

\* the last position of the stripped url of items[j] in items
LastWithUrl(items, j) ==
    CHOOSE h \in j..Len(items) :
        /\ UrlKey(items[h]) = UrlKey(items[j])
        /\ \A g \in (h + 1)..Len(items) : UrlKey(items[g]) # UrlKey(items[j])

\* C15: what dedupe_by_url returns has one document for each non-empty
\* stripped url of its input and no other, and the document of a url is the
\* last input document with that url.
C15_DedupeLastWins ==
    run.pc = "deduped" =>
        LET in == run.collected
            out == run.items
        IN  /\ \A i \in 1..Len(out) : ~IsEmptyUrl(UrlKey(out[i]))
            /\ \A i, j \in 1..Len(out) : i # j => UrlKey(out[i]) # UrlKey(out[j])
            /\ Len(out) = Cardinality({UrlKey(in[j]) : j \in 1..Len(in)} \ {EmptyUrl})
            /\ \A j \in 1..Len(in) :
                   ~IsEmptyUrl(UrlKey(in[j])) =>
                       \E i \in 1..Len(out) : out[i] = in[LastWithUrl(in, j)]

\* three documents of one url, one of them padded, and one without a url
C15_Witness ==
    /\ run.pc = "deduped"
    /\ run.collected = << DocA, DocNoUrl, DocAPadded >>
    /\ run.items = << DocAPadded >>

\* the index of the last document of the sub-batch that starts at i
SubBatchEnd(items, i) ==
    IF i + cfg.batch - 1 < Len(items) THEN i + cfg.batch - 1 ELSE Len(items)

\* C16: the POSTs of one call of ingest_items go through the sub-batches in
\* input order from the first one: a POST for a later sub-batch follows a POST
\* the call took as accepted for the sub-batch just before it, an accepted
\* sub-batch is not POSTed again, no POST follows the second failure of a
\* sub-batch, and no POST carries a document of a sub-batch later than the one
\* it is made for.
C16_DeliveryInOrder ==
    \A p \in Procs :
        LET a == ing[p]
            P == EventsOf(p, "post")
        IN  /\ Len(P) > 0 => P[1].n = 1
            /\ \A n \in 1..(Len(P) - 1) :
                  IF PostSucceeds(P[n].resp)
                  THEN P[n + 1].n = P[n].n + cfg.batch
                  ELSE /\ P[n + 1].n = P[n].n
                       /\ n > 1 => (P[n - 1].n # P[n].n \/ PostSucceeds(P[n - 1].resp))
            /\ \A n \in 1..Len(P) :
                  Range(P[n].docs)
                      \subseteq Range(SubSeq(a.input, 1, SubBatchEnd(a.input, P[n].n)))

\* the POSTs made for the sub-batch that starts at k
PostsFor(p, k) == SelectSeq(EventsOf(p, "post"), LAMBDA e : e.n = k)

\* the m-th event of the current activation is the first POST for its sub-batch
FirstAttempt(p, m) ==
    \A h \in 1..(m - 1) :
        IoOf(p)[h].ev = "post" => IoOf(p)[h].n # IoOf(p)[m].n

\* at most POST_ATTEMPTS POSTs per sub-batch; a sleep of POST_SLEEP follows
\* the failure of a first attempt and nothing else; once a sub-batch has been
\* accepted, at whichever attempt, the next one is POSTed and what is queued
\* starts after it; at most POST_ATTEMPTS * ceil(n / batch size) POSTs
RetryBounded(p) ==
    LET a == ing[p]
        io == IoOf(p)
        P == EventsOf(p, "post")
    IN  /\ \A k \in 1..Len(a.input) : Len(PostsFor(p, k)) <= POST_ATTEMPTS
        /\ \A m \in 1..Len(io) :
              /\ io[m].ev = "sleep" =>
                    /\ io[m].n = POST_SLEEP
                    /\ m > 1 /\ io[m - 1].ev = "post"
                    /\ ~PostSucceeds(io[m - 1].resp)
                    /\ FirstAttempt(p, m - 1)
              /\ (io[m].ev = "post" /\ ~PostSucceeds(io[m].resp)) =>
                    IF FirstAttempt(p, m)
                    THEN m < Len(io) /\ io[m + 1].ev = "sleep"
                    ELSE m = Len(io) \/ io[m + 1].ev = "append"
        /\ a.pc = "done" =>
              \A n \in 1..Len(P) : PostSucceeds(P[n].resp) =>
                  /\ \A w \in Range(EventsOf(p, "append")) :
                         Len(w.docs) <= Len(a.input) - SubBatchEnd(a.input, P[n].n)
                  /\ SubBatchEnd(a.input, P[n].n) < Len(a.input) =>
                         (n < Len(P) /\ P[n + 1].n = P[n].n + cfg.batch)
        /\ Len(P) * cfg.batch <= POST_ATTEMPTS * (Len(a.input) + cfg.batch - 1)
        /\ Len(P) <= POST_ATTEMPTS * ((Len(a.input) + cfg.batch - 1) \div cfg.batch)

\* C17: in every call of ingest_items each sub-batch is POSTed at most twice,
\* a fixed sleep separates the first attempt from the second and none follows
\* the last, a sub-batch accepted at its second attempt is not queued and the
\* next one is delivered, the call makes at most 2 * ceil(n / batch size)
\* POSTs, and it returns.
C17_BoundedRetry ==
    /\ [](\A p \in Procs : RetryBounded(p))
    /\ \A p \in Procs : (ing[p].pc \notin {"idle", "done"}) ~> (ing[p].pc = "done")

\* both sub-batches of a batch of two were accepted at their second attempt
C17_Witness ==
    LET P == EventsOf("pipeline", "post")
    IN  /\ ing["pipeline"].pc = "done"
        /\ ing["pipeline"].result.ok
        /\ Len(P) = 4
        /\ Len(EventsOf("pipeline", "sleep")) = 2

\* C18: a POST answered by anything but a 2xx JSON object whose success
\* indicator is true is a failed attempt: a retry or the queuing to the outbox
\* follows it, and the call does not end with it.
C18_OnlyWellFormedSuccessDelivers ==
    \A p \in Procs :
        LET io == IoOf(p)
        IN  \A m \in 1..Len(io) :
                (io[m].ev = "post" /\ io[m].resp # "ok_true") =>
                    /\ m < Len(io) => io[m + 1].ev \in {"sleep", "append"}
                    /\ ing[p].pc = "done" => m < Len(io)

\* an alert follows the m-th event of process p
AlertAfter(p, m) == \E h \in (m + 1)..Len(log[p]) : log[p][h].ev = "alert"

\* C19: an alert follows every append of ingest_items to the outbox by the
\* time the call has returned, and every requeue of replay by the time the
\* run has returned; whether the webhook took the alert or not, the call
\* returns ok=false with the number of documents queued.
C19_AlertOnEveryQueuing ==
    /\ \A p \in Procs : \A m \in 1..Len(log[p]) :
           (log[p][m].ev = "append" /\ ing[p].pc \in {"idle", "done"}) =>
               /\ AlertAfter(p, m)
               /\ log[p][m + 1].ev = "alert"
               /\ log[p][m + 1].n = Len(log[p][m].docs)
    /\ \A p \in Procs :
           (ing[p].pc = "done" /\ EventsOf(p, "alert") # << >>) =>
               /\ ~ing[p].result.ok
               /\ ing[p].result.queued = EventsOf(p, "alert")[1].n
    /\ \A m \in 1..Len(log["replay"]) :
           (log["replay"][m].ev = "requeue" /\ rep.pc = "done") =>
               AlertAfter("replay", m)

\* the waits of the replay run so far
Backoffs == SelectSeq(log["replay"], LAMBDA e : e.ev = "backoff")

\* what the return of a call of ingest_items does to the chunk loop: after ok
\* the next chunk, at attempt 1; after a failure the same chunk at the next
\* attempt, with a wait of BACKOFF_SEC times the number of the failed attempt
\* logged last, unless that was attempt number cfg.retries
ChunkLoopStep ==
    (rep.pc = "wait" /\ rep'.pc # "wait") =>
        IF ing["replay"].result.ok
        THEN /\ rep'.i = rep.i + CHUNK_SIZE
             /\ rep'.attempt = 1
             /\ rep'.failed = rep.failed
             /\ log' = log
        ELSE /\ log'["replay"] =
                   Append(log["replay"],
                          Event("backoff", "replay", << >>, "", BACKOFF_SEC * rep.attempt))
             /\ IF rep.attempt < cfg.retries
                THEN rep'.i = rep.i /\ rep'.attempt = rep.attempt + 1
                ELSE rep'.i = rep.i + CHUNK_SIZE /\ rep'.attempt = 1

C21_MissingUriQueuesBatch ==
    \A p \in Procs :
        LET a == ing[p]
        IN  (cfg.mode = "mongo" /\ ~cfg.uri /\ a.input # << >>) =>
                /\ EventsOf(p, "upsert") = << >>
                /\ store = << >>
                /\ a.pc # "raised"
                /\ a.pc = "done" =>
                      /\ EventsOf(p, "append") = << Event("append", p, a.input, "live", 0) >>
                      /\ fs.live = File(a.pre.live.lines \o Lines(a.input))
                      /\ Len(EventsOf(p, "alert")) = 1
                      /\ ~a.result.ok
                      /\ a.result.queued = Len(a.input)

\* a batch of two went to the outbox for want of MONGO_URI
C21_Witness ==
    /\ cfg.mode = "mongo" /\ ~cfg.uri
    /\ ing["pipeline"].pc = "done"
    /\ Len(ing["pipeline"].input) = 2
    /\ ing["pipeline"].result.queued = 2

\* the lines of a file that are records
WellFormed(lines) == SelectSeq(lines, LAMBDA l : l.kind = "doc")

C23_NothingToDo ==
    /\ (rep.runs > 0 /\ ~rep.pre.live.exists) =>
          /\ rep.pc = "done"
          /\ rep.status = 0
          /\ fs = rep.pre
          /\ log["replay"] = << >>
          /\ ing["replay"].pc = "idle"
    /\ (rep.runs > 0 /\ rep.pre.live.exists /\ WellFormed(rep.pre.live.lines) = << >>) =>
          /\ rep.pc \in {"replace", "read", "remove", "done"}
          /\ log["replay"] = << >>
          /\ ing["replay"].pc = "idle"
          /\ sunk = {} /\ store = << >>
          /\ rep.pc = "done" =>
                /\ rep.status = 0
                /\ fs = [rep.pre EXCEPT !.live = NoFile, !.tmp = NoFile]

\* a run over a file of a malformed and a blank line has returned
C23_Witness ==
    /\ rep.pc = "done"
    /\ rep.pre.live = File(<< BadLine, BlankLine >>)
    /\ ~fs.tmp.exists

\* the upsert counts of the answers the call took as accepted
RECURSIVE SumUpserts(_)
SumUpserts(P) ==
    IF P = << >> THEN 0
    ELSE (IF PostSucceeds(Head(P).resp)
          THEN RespUpserts(Head(P).resp, Len(Head(P).docs)) ELSE 0)
         + SumUpserts(Tail(P))

\* C24: in remote-sink mode the warm-up is the first I/O of a call and the
\* only warm-up; whatever its outcome, the call goes on to the POSTs, and what
\* it appends to the outbox and what it returns are determined by the batch
\* and the answers to the POSTs alone.
C24_WarmUpIsAdvisory ==
    \A p \in Procs :
        LET a == ing[p]
            io == IoOf(p)
            P == EventsOf(p, "post")
            k == Exhausted(p)
        IN  (cfg.mode = "http" /\ a.pc # "idle" /\ a.input # << >>) =>
                /\ a.via # "handler"
                /\ a.pc # "warm" =>
                      /\ io[1].ev = "warmup"
                      /\ Len(EventsOf(p, "warmup")) = 1
                /\ a.pc \in {"open", "flush", "alert"} => k > 0
                /\ a.pc = "done" =>
                      IF k > 0
                      THEN /\ a.result = [ok |-> FALSE, upserts |-> 0,
                                           queued |-> Len(a.input) - k + 1,
                                           via |-> "batches"]
                           /\ EventsOf(p, "append") =
                                  << Event("append", p, SubSeq(a.input, k, Len(a.input)),
                                           "live", 0) >>
                      ELSE /\ a.result = [ok |-> TRUE, upserts |-> SumUpserts(P),
                                           queued |-> 0, via |-> "batches"]
                           /\ EventsOf(p, "append") = << >>
                           /\ PostSucceeds(P[Len(P)].resp)

\* a batch of two was delivered after a warm-up that failed
C24_Witness ==
    /\ ing["pipeline"].pc = "done"
    /\ ing["pipeline"].result.ok
    /\ Len(ing["pipeline"].input) = 2
    /\ IoOf("pipeline")[1] = Event("warmup", "pipeline", << >>, "fail", 0)

\* C25: what canonicalize_url returns for a canonical URL is that URL.
C25_CanonicalizeIdempotent ==
    probe.pc = "twice" => probe.twice = probe.once

\* the names with the prefix utm_ among the names the model uses
UtmPrefixed ==
    {"utm_source", "utm_medium", "utm_campaign", "utm_term", "utm_content", "utm_id"}

\* the tracking set: any utm_-prefixed name and the seven others
IsTrackingName(k) ==
    k \in UtmPrefixed \cup {"gclid", "fbclid", "mc_cid", "mc_eid", "ref", "ref_src", "igshid"}

Occurrences(x, q) == Cardinality({j \in 1..Len(q) : q[j] = x})

\* two queries have the same parameters but for their order and for tracking
\* parameters
SameButOrderAndTracking(q1, q2) ==
    \A x \in QueryParams :
        ~IsTrackingName(x.k) => Occurrences(x, q1) = Occurrences(x, q2)

\* C26: the canonical URL has no tracking parameter, and a URL with the same
\* parameters in another order, or with other tracking parameters, has the
\* same canonical URL.
C26_TrackingAndOrderInsensitive ==
    probe.pc \in {"once", "twice"} =>
        /\ \A j \in 1..Len(probe.once.query) : ~IsTrackingName(probe.once.query[j].k)
        /\ \A q \in SeqsUpTo(QueryParams, MaxQuery) :
               SameButOrderAndTracking(q, probe.u.query) =>
                   canonicalize_url([probe.u EXCEPT !.query = q]) = probe.once

\* C27: when a replay run has returned, every record that a pipeline call
\* started after the run's claim has appended to the outbox is in the live
\* outbox.
C27_NextGenerationKept ==
    (rep.pc = "done" /\ ing["pipeline"].gen > 0 /\ ing["pipeline"].gen = rep.runs) =>
        \A m \in 1..Len(log["pipeline"]) :
            log["pipeline"][m].ev = "append" =>
                /\ log["pipeline"][m].resp = "live"
                /\ \A j \in 1..Len(log["pipeline"][m].docs) :
                       InSeq(log["pipeline"][m].docs[j], LiveDocs)

\* a call started after the claim queued its batch, and the run requeued a
\* chunk and returned
C27_Witness ==
    /\ rep.pc = "done"
    /\ rep.failed # << >>
    /\ ing["pipeline"].gen = rep.runs
    /\ ing["pipeline"].gen > 0
    /\ Len(EventsOf("pipeline", "append")) = 1
    /\ Len(LiveDocs) >= 2

\* the requeue of the run raised
RequeueFailed ==
    \E m \in 1..Len(log["replay"]) :
        log["replay"][m].ev = "requeue" /\ log["replay"][m].resp = "oserror"

\* C28: when the append of the failed records to the outbox has raised, replay
\* has returned 2, and the working file is there as it was claimed, with every
\* record that was not delivered.
C28_RequeueFailureKeepsWorkingFile ==
    RequeueFailed =>
        /\ rep.pc = "done"
        /\ rep.status = 2
        /\ fs.tmp = rep.pre.live
        /\ fs.tmp.exists
        /\ \A j \in 1..Len(rep.claimed) :
               Accepted(rep.claimed[j]) \/ InSeq(rep.claimed[j], TmpDocs)
        /\ \A j \in 1..Len(rep.failed) :
               \E h \in 1..Len(TmpDocs) : SameDoc(TmpDocs[h], rep.failed[j])

\* a chunk failed at every delivery and its requeue raised
C28_Witness ==
    /\ RequeueFailed
    /\ rep.pc = "done"
    /\ Len(rep.failed) = 1
    /\ Len(TmpDocs) = 2

\* the upserts made under url_canon so far
CanonUpserts == SelectSeq(EventsOf("pipeline", "upsert"), LAMBDA e : e.resp = "url_canon")

\* C29: in a store that was empty before the first ingest, no two records have
\* the same non-empty url_canon, and every url_canon a document was stored
\* under is the url_canon of a record after every later upsert.
C29_StoreKeyUnique ==
    /\ \A i, j \in 1..Len(store) :
           (i # j /\ ~IsEmptyUrl(store[i].url_canon[1]))
               => store[i].url_canon # store[j].url_canon
    /\ \A n \in 1..Len(CanonUpserts) :
           \E j \in 1..Len(store) :
               store[j].url_canon = CanonUpserts[n].docs[1].url_canon

RECURSIVE Concat(_)
Concat(ss) == IF ss = << >> THEN << >> ELSE Head(ss) \o Concat(Tail(ss))

\* at most MAX_TOTAL_DOCS documents, their urls non-empty and pairwise distinct
WithinCap(docs) ==
    /\ Len(docs) <= MAX_TOTAL_DOCS
    /\ \A i \in 1..Len(docs) : ~IsEmptyUrl(UrlKey(docs[i]))
    /\ \A i, j \in 1..Len(docs) : i # j => UrlKey(docs[i]) # UrlKey(docs[j])

\* C30: whatever the sources return and whichever of them fail, the documents
\* of a run are within the cap and of distinct non-empty urls at the start of
\* every iteration over the queries, after the loop, after each of the
\* optional sources and when they are cut into batches, and the batches are
\* those documents.
C30_CappedAndDistinct ==
    /\ run.pc \in {"cse", "newsapi", "reddit", "handoff", "ingest", "done"}
           => WithinCap(run.all_docs)
    /\ run.pc = "ingest" =>
           /\ run.all_docs # << >>
           /\ Concat(run.batches) = run.all_docs
           /\ \A b \in 1..Len(run.batches) :
                  Len(run.batches[b]) \in 1..INGEST_BATCH_SIZE

\* a run in which a source failed and the others returned more than the cap
C30_Witness ==
    /\ run.pc = "ingest"
    /\ run.failures > 0
    /\ run.extended > MAX_TOTAL_DOCS + 1
    /\ Len(Concat(run.batches)) = MAX_TOTAL_DOCS

C32_SupervisorBackoff ==
    /\ (sup.pc = "run" /\ sup.slept /\ sup.code > 0) =>
           /\ sup.delay <= MAX_BACKOFF
           /\ sup.delay <= 30 * Pow2(sup.streak - 1)
           /\ sup.delay \in {MAX_BACKOFF, 30 * Pow2(sup.streak - 1)}
           /\ sup.streak = 1 => sup.delay = 30
    /\ (sup.pc = "run" /\ sup.slept /\ sup.code = 0) => sup.delay >= 60
    /\ sup.end \in {"no", "interrupt"}

\* C33: every alert of monitor is for a status other than healthy, and it is
\* posted when the status is not that of the run before, or COOLDOWN_MIN
\* minutes or more after the alert before it; so two alerts for a status that
\* has stayed the same are COOLDOWN_MIN minutes apart or more.
C33_AlertCooldown ==
    \A n \in 1..Len(mon.alerts) :
        LET a == mon.alerts[n]
        IN  /\ a.status # "healthy"
            /\ \/ a.status # a.prev
               \/ a.since = -1
               \/ a.t - a.since >= COOLDOWN_MIN

====
